---------------------------- MODULE Spec2Model ----------------------------
(***************************************************************************)
(* Model of the TikTok text-overlay service:                               *)
(*   src/text-overlay.js  splitTextByNewlines and class TikTokTextOverlay  *)
(*   src/server.js        class TikTokTextOverlayAPI                       *)
(*                                                                         *)
(* A caption is a sequence of characters.  The alphabet keeps one          *)
(* character of every class the code distinguishes:                        *)
(*   "n"   a letter (also the second character of the escaped marker)      *)
(*   "W"   a wide letter                                                   *)
(*   "SP"  a space                  (matched by \s, removed by trim)       *)
(*   "NL"  a real line break        (matched by \s, removed by trim)       *)
(*   "BS"  a backslash                                                     *)
(*                                                                         *)
(* Lengths are integers in hundredths of a pixel, so that the products     *)
(* with the line-height multiplier (kept in tenths) and with 0.15 / 0.85   *)
(* are exact.  JavaScript computes in binary floating point; the model     *)
(* computes the same expressions exactly.                                  *)
(***************************************************************************)
EXTENDS Integers, Sequences, FiniteSets, TLC

VARIABLES
    config,      \* this.config of the one TikTokTextOverlay instance
    configObject,\* which object this.config refers to
    text,        \* the caption handed to the function / method under study
    lines,       \* the line list it returned (render path)
    preview,     \* the line list previewBalancedText returned
    layout,      \* the geometry addTextOverlayBase64 computed and drew
    pc,          \* position of the single caller of the class-level specs
    options,     \* the options handed to balanceTextLines
    slots,       \* server: overlay requests suspended at `await loadImage`
    tempFiles,   \* server: temp files present on disk (by slot)
    serverUp,    \* server: the node process is alive
    last         \* server: the request handled by the latest step and its outcome

vars == <<config, configObject, text, lines, preview, layout, pc, options, slots, tempFiles, serverUp, last>>

-----------------------------------------------------------------------------
(* Bounds of the model *)

\* longest caption of the splitter specification
MaxSplitLen == 5

\* longest caption of the auto-wrap specification
MaxWrapLen == 6

\* longest caption of the overlay-processor specification
MaxCaptionLen == 4

\* overlay requests the server may have suspended at `await loadImage` at once
MaxInFlight == 2

\* most words of a caption handed to balanceTextLines
MaxWords == 7

\* nested calls of backtrack the call stack holds before the engine throws
\* its RangeError; deeper than any enumeration of MaxWords words needs
\* (one call per line and the call that finds the end: MaxWords + 1)
MaxStackDepth == 9

-----------------------------------------------------------------------------
(* Characters and strings *)

Alphabet == {"n", "W", "SP", "NL", "BS"}

\* /\s/ : the white-space characters of the alphabet
IsSpace(c) == c \in {"SP", "NL"}

\* All sequences over S of length 0..n
SeqsUpTo(S, n) == UNION {[1..k -> S] : k \in 0..n}

Max(a, b) == IF a >= b THEN a ELSE b
Min(a, b) == IF a <= b THEN a ELSE b

\* String.prototype.trim
RECURSIVE TrimLeft(_)
TrimLeft(s) ==
    IF s # <<>> /\ IsSpace(Head(s)) THEN TrimLeft(Tail(s)) ELSE s

RECURSIVE TrimRight(_)
TrimRight(s) ==
    IF s # <<>> /\ IsSpace(s[Len(s)]) THEN TrimRight(SubSeq(s, 1, Len(s) - 1)) ELSE s

Trim(s) == TrimRight(TrimLeft(s))

\* text.replace(/\\n/g, "\n") : every backslash-n token becomes a real line break
RECURSIVE ReplaceEscapedNewlines(_)
ReplaceEscapedNewlines(s) ==
    IF s = <<>> THEN <<>>
    ELSE IF Len(s) >= 2 /\ s[1] = "BS" /\ s[2] = "n"
         THEN <<"NL">> \o ReplaceEscapedNewlines(SubSeq(s, 3, Len(s)))
         ELSE <<Head(s)>> \o ReplaceEscapedNewlines(Tail(s))

\* String.prototype.split(sep) for a one-character separator:
\* k separators give k+1 pieces, the empty string gives one empty piece
RECURSIVE SplitAcc(_, _, _)
SplitAcc(s, sep, cur) ==
    IF s = <<>> THEN <<cur>>
    ELSE IF Head(s) = sep
         THEN <<cur>> \o SplitAcc(Tail(s), sep, <<>>)
         ELSE SplitAcc(Tail(s), sep, Append(cur, Head(s)))

SplitOn(s, sep) == SplitAcc(s, sep, <<>>)

\* (line) => line.trim().length > 0
NonBlank(line) == Len(Trim(line)) > 0

\* Array.prototype.map(trim): what a splitter that trimmed its output would return
MapTrim(ls) == [i \in 1..Len(ls) |-> Trim(ls[i])]

\* a splitter that returns the trimmed segments instead of the original ones
splitTextByNewlinesTrimmed(t) ==
    MapTrim(SelectSeq(SplitOn(ReplaceEscapedNewlines(t), "NL"), NonBlank))

\* a splitter that cuts at real line breaks only
splitAtRealNewlinesOnly(t) == SelectSeq(SplitOn(t, "NL"), NonBlank)

\* splitTextByNewlines (src/text-overlay.js 10-14)
splitTextByNewlines(t) ==
    SelectSeq(SplitOn(ReplaceEscapedNewlines(t), "NL"), NonBlank)

\* /\n|\\n/.test(text)
HasBreakMarker(t) ==
    \E i \in 1..Len(t) :
        \/ t[i] = "NL"
        \/ t[i] = "BS" /\ i < Len(t) /\ t[i + 1] = "n"

-----------------------------------------------------------------------------
(* The overlay processor: configuration and measuring *)

\* n pixels, in hundredths of a pixel
Px(n) == n * 100

\* TIKTOK_SAFE_ZONES, in pixels
TIKTOK_SAFE_ZONES ==
    [right |-> [x |-> 870, width |-> 154], bottom |-> [y |-> 1200, height |-> 336]]

\* initializeConfiguration: the fields the layout reads.  width, height,
\* fontSize, the paddings and the radius are in pixels, lineHeight is the
\* multiplier in tenths (12 is 1.2); the two colours are the fields
\* /api/configure updates through updateConfig
defaultConfig ==
    [width |-> 1024, height |-> 1536, fontSize |-> 65,
     bubblePadding |-> 20, horizontalPadding |-> 26, bubbleRadius |-> 25,
     lineHeight |-> 12, position |-> "center",
     textColor |-> "#131313", bubbleColor |-> "#FFFFFF"]

\* advance width of a character, in hundredths of the font size
CharEm(c) ==
    CASE c = "n" -> 50
      [] c = "W" -> 90
      [] c = "SP" -> 24
      [] c = "BS" -> 30
      [] OTHER -> 0

RECURSIVE SumEm(_)
SumEm(s) == IF s = <<>> THEN 0 ELSE CharEm(Head(s)) + SumEm(Tail(s))

\* ctx.measureText(s).width under ctx.font = `${fontWeight} ${fontSize}px ...`:
\* the advance widths add up and scale with the font size
measureText(cfg, s) == SumEm(s) * cfg.fontSize

\* this.config.fontSize * this.config.lineHeight
lineHeightOf(cfg) == cfg.fontSize * cfg.lineHeight * 10

\* lineHeight + this.config.bubblePadding * 2
bubbleHeightOf(cfg) == lineHeightOf(cfg) + Px(cfg.bubblePadding) * 2

\* getMaxBubbleWidthForAutoMode
getMaxBubbleWidthForAutoMode(cfg) ==
    LET centerX == cfg.width * 50
        maxHalfWidthRight == Px(TIKTOK_SAFE_ZONES.right.x) - centerX
        maxHalfWidthLeft == centerX - 0
    IN  Min(maxHalfWidthRight, maxHalfWidthLeft) * 2

\* the bound without the horizontal padding taken off
maxTextWidthNoPadding(cfg) == Max(0, getMaxBubbleWidthForAutoMode(cfg))

\* a bound with the horizontal padding taken off twice over
maxTextWidthDoublePadding(cfg) ==
    Max(0, getMaxBubbleWidthForAutoMode(cfg) - 4 * Px(cfg.horizontalPadding))

\* Math.max(0, maxBubbleWidth - 2 * this.config.horizontalPadding)
maxTextWidthOf(cfg) ==
    Max(0, getMaxBubbleWidthForAutoMode(cfg) - 2 * Px(cfg.horizontalPadding))

-----------------------------------------------------------------------------
(* autoWrapLines *)

\* .replace(/\n/g, " ")
NewlinesToSpaces(s) == [i \in 1..Len(s) |-> IF s[i] = "NL" THEN "SP" ELSE s[i]]

\* .replace(/\s+/g, " ")
RECURSIVE CollapseSpaces(_)
CollapseSpaces(s) ==
    IF s = <<>> THEN <<>>
    ELSE IF IsSpace(Head(s))
         THEN <<"SP">> \o CollapseSpaces(TrimLeft(s))
         ELSE <<Head(s)>> \o CollapseSpaces(Tail(s))

\* a normalisation that trims the caption but keeps its runs of white space
NormalizeNoCollapse(rawText) ==
    Trim(NewlinesToSpaces(ReplaceEscapedNewlines(rawText)))

\* rawText.replace(/\\n/g, "\n").replace(/\n/g, " ").replace(/\s+/g, " ").trim()
Normalize(rawText) ==
    Trim(CollapseSpaces(NewlinesToSpaces(ReplaceEscapedNewlines(rawText))))

\* the candidate line: `${currentLine} ${word}` or the word alone
Candidate(currentLine, word) ==
    IF currentLine # <<>> THEN currentLine \o <<"SP">> \o word ELSE word

\* a loop that leaves a word that does not fit on the line it was tried on
RECURSIVE WrapLoopKeepOnLine(_, _, _, _)
WrapLoopKeepOnLine(cfg, words, acc, currentLine) ==
    IF words = <<>>
    THEN IF currentLine # <<>> THEN Append(acc, currentLine) ELSE acc
    ELSE LET candidate == Candidate(currentLine, Head(words))
         IN  IF measureText(cfg, candidate) <= maxTextWidthOf(cfg)
             THEN WrapLoopKeepOnLine(cfg, Tail(words), acc, candidate)
             ELSE WrapLoopKeepOnLine(cfg, Tail(words), Append(acc, candidate), <<>>)

\* the for loop of autoWrapLines over the remaining words, with the lines
\* pushed so far and the current line; the trailing push at the end
RECURSIVE WrapLoop(_, _, _, _)
WrapLoop(cfg, words, acc, currentLine) ==
    IF words = <<>>
    THEN IF currentLine # <<>> THEN Append(acc, currentLine) ELSE acc
    ELSE LET word == Head(words)
             candidate == Candidate(currentLine, word)
         IN  IF measureText(cfg, candidate) <= maxTextWidthOf(cfg)
             THEN WrapLoop(cfg, Tail(words), acc, candidate)
             ELSE IF currentLine # <<>>
                  THEN WrapLoop(cfg, Tail(words), Append(acc, currentLine), word)
                  ELSE WrapLoop(cfg, Tail(words), Append(acc, word), <<>>)

\* autoWrapLines
autoWrapLines(cfg, rawText) ==
    LET normalized == Normalize(rawText)
    IN  IF Len(normalized) = 0 THEN <<>>
        ELSE WrapLoop(cfg, SplitOn(normalized, "SP"), <<>>, <<>>)

-----------------------------------------------------------------------------
(* calculateTextMetrics and the layout of addTextOverlayBase64 *)

\* an auto-wrap flag that only looks for real line breaks
shouldAutoWrapRealNewlineOnly(t) == ~(\E i \in 1..Len(t) : t[i] = "NL")

\* shouldAutoWrap(text)
shouldAutoWrap(t) == ~HasBreakMarker(t)

\* calculateTextMetrics(ctx, text, maxWidth)
calculateTextMetrics(cfg, t) ==
    LET hasExplicitBreaks == HasBreakMarker(t)
        ls == IF hasExplicitBreaks THEN splitTextByNewlines(t) ELSE autoWrapLines(cfg, t)
    IN  [lines |-> ls,
         lineHeight |-> lineHeightOf(cfg),
         totalHeight |-> Len(ls) * lineHeightOf(cfg)]

\* lineCount * bubbleHeight - (lineCount - 1) * overlapBetweenBubbles
totalBubbleHeightOf(cfg, lineCount) ==
    lineCount * bubbleHeightOf(cfg) - (lineCount - 1) * Px(10)

\* a vertical position computed from the text height instead of the bubble stack
calculateVerticalPositionFromText(cfg, canvasHeight, totalTextHeight, lineCount) ==
    CASE cfg.position = "top" -> canvasHeight * 15
      [] cfg.position = "bottom" -> canvasHeight * 85 - totalTextHeight
      [] OTHER -> (Px(canvasHeight) - totalTextHeight) \div 2

\* calculateVerticalPosition(canvasHeight, totalTextHeight, lineCount)
calculateVerticalPosition(cfg, canvasHeight, totalTextHeight, lineCount) ==
    LET totalBubbleHeight == totalBubbleHeightOf(cfg, lineCount)
    IN  CASE cfg.position = "top" -> canvasHeight * 15
          [] cfg.position = "bottom" -> canvasHeight * 85 - totalBubbleHeight
          [] OTHER -> (Px(canvasHeight) - totalBubbleHeight) \div 2

\* a clamp that pins the block bottom to the safe-zone edge in both directions
clampStartYAlways(cfg, startY, lineCount, isAutoWrap) ==
    IF isAutoWrap /\ lineCount > 0
    THEN startY - (startY + totalBubbleHeightOf(cfg, lineCount)
                   - Px(TIKTOK_SAFE_ZONES.bottom.y))
    ELSE startY

\* a bottom clamp applied to explicit-break captions as well
clampStartYAnyMode(cfg, startY, lineCount, isAutoWrap) ==
    IF lineCount > 0
    THEN LET blockBottom == startY + totalBubbleHeightOf(cfg, lineCount)
             maxBottom == Px(TIKTOK_SAFE_ZONES.bottom.y)
         IN  IF blockBottom > maxBottom THEN startY - (blockBottom - maxBottom) ELSE startY
    ELSE startY

\* the bottom clamp of addTextOverlayBase64 (auto-wrap mode only)
clampStartY(cfg, startY, lineCount, isAutoWrap) ==
    IF isAutoWrap /\ lineCount > 0
    THEN LET blockBottom == startY + totalBubbleHeightOf(cfg, lineCount)
             maxBottom == Px(TIKTOK_SAFE_ZONES.bottom.y)
         IN  IF blockBottom > maxBottom THEN startY - (blockBottom - maxBottom) ELSE startY
    ELSE startY

\* bubbles stacked edge to edge, without the overlap between them
bubbleForNoOverlap(cfg, line, index, startY) ==
    LET lineWidth == measureText(cfg, line)
        bubbleWidth == lineWidth + Px(cfg.horizontalPadding) * 2
        bubbleHeight == lineHeightOf(cfg) + Px(cfg.bubblePadding) * 2
        bubbleY == startY + index * bubbleHeight
    IN  [x |-> (Px(cfg.width) - bubbleWidth) \div 2, y |-> bubbleY,
         width |-> bubbleWidth, height |-> bubbleHeight,
         radius |-> Px(cfg.bubbleRadius),
         lineWidth |-> lineWidth,
         textX |-> cfg.width * 50,
         textY |-> bubbleY + Px(cfg.bubblePadding) + lineHeightOf(cfg) \div 2]

\* the body of lines.forEach((line, index) => ...): the arguments handed to
\* drawBubble and to fillText.  index counts from 0
bubbleFor(cfg, line, index, startY) ==
    LET lineWidth == measureText(cfg, line)
        extraPadding == 0
        bubbleWidth == lineWidth + (Px(cfg.horizontalPadding) + extraPadding) * 2
        bubbleHeight == lineHeightOf(cfg) + (Px(cfg.bubblePadding) + extraPadding) * 2
        gapBetweenBubbles == 0 - Px(10)
        bubbleX == (Px(cfg.width) - bubbleWidth) \div 2
        bubbleY == startY + index * (bubbleHeight + gapBetweenBubbles)
    IN  [x |-> bubbleX, y |-> bubbleY, width |-> bubbleWidth, height |-> bubbleHeight,
         radius |-> Px(cfg.bubbleRadius),
         lineWidth |-> lineWidth,
         textX |-> cfg.width * 50,
         textY |-> bubbleY + (Px(cfg.bubblePadding) + extraPadding)
                   + lineHeightOf(cfg) \div 2]

\* addTextOverlayBase64 after the image is loaded: metrics, start position,
\* clamp and one bubble per line, all read from this.config as it is then
renderLayout(cfg, t) ==
    LET textMetrics == calculateTextMetrics(cfg, t)
        isAutoWrap == shouldAutoWrap(t)
        n == Len(textMetrics.lines)
        vpos == calculateVerticalPosition(cfg, cfg.height, textMetrics.totalHeight, n)
        startY0 == vpos - Px(50)
        startY == clampStartY(cfg, startY0, n, isAutoWrap)
    IN  [drawn |-> TRUE,
         lines |-> textMetrics.lines,
         isAutoWrap |-> isAutoWrap,
         vpos |-> vpos,
         unclampedY |-> startY0,
         startY |-> startY,
         bubbles |-> [i \in 1..n |-> bubbleFor(cfg, textMetrics.lines[i], i - 1, startY)]]

\* previewBalancedText(text, options)
previewBalancedText(t) == splitTextByNewlines(t)

-----------------------------------------------------------------------------
(* Values shared by the specifications *)

NoLines == <<>>
NoPreview == [called |-> FALSE]
NoLayout == [drawn |-> FALSE]
NoRequest == [kind |-> "none"]
NoOptions == [given |-> FALSE]

-----------------------------------------------------------------------------
(* Specification of the explicit-break splitter alone *)

SplitInit ==
    /\ text \in SeqsUpTo(Alphabet, MaxSplitLen)
    /\ pc = "idle"
    /\ lines = NoLines
    /\ preview = NoPreview
    /\ layout = NoLayout
    /\ config = defaultConfig
    /\ configObject = 0
    /\ slots = <<>>
    /\ tempFiles = {}
    /\ serverUp = TRUE
    /\ last = NoRequest
    /\ options = NoOptions

\* lines = splitTextByNewlines(text)
SplitCall ==
    /\ pc = "idle"
    /\ lines' = splitTextByNewlines(text)
    /\ pc' = "done"
    /\ UNCHANGED <<config, configObject, text, preview, layout, slots, tempFiles, serverUp, last, options>>

SplitNext == SplitCall

SpecSplit == SplitInit /\ [][SplitNext]_vars

-----------------------------------------------------------------------------
(* C1: the explicit-break splitter returns the segments between markers *)

\* positions where a break marker starts: a real line break, or a backslash
\* immediately followed by n
MarkerStarts(t) ==
    {i \in 1..Len(t) : t[i] = "NL" \/ (t[i] = "BS" /\ i < Len(t) /\ t[i + 1] = "n")}

MarkerLen(t, i) == IF t[i] = "NL" THEN 1 ELSE 2

\* positions where a segment starts: the start of the caption and the position
\* after every marker
SegmentStarts(t) == {1} \cup {i + MarkerLen(t, i) : i \in MarkerStarts(t)}

\* the segment starting at s runs up to the next marker (or the end of the caption)
SegmentAt(t, s) ==
    LET ends == {m \in MarkerStarts(t) : m >= s} \cup {Len(t) + 1}
        e == CHOOSE m \in ends : \A x \in ends : m <= x
    IN  [k \in 1..(e - s) |-> t[s + k - 1]]

\* the segments in their original order
MarkerSegments(t) ==
    LET starts == SegmentStarts(t)
        nth(j) == CHOOSE s \in starts : Cardinality({x \in starts : x < s}) = j - 1
    IN  [j \in 1..Cardinality(starts) |-> SegmentAt(t, nth(j))]

HasVisibleChar(seg) == \E k \in 1..Len(seg) : ~IsSpace(seg[k])

\* C1: for a caption with at least one break marker, splitTextByNewlines returns
\* exactly the segments between markers that hold a non-white-space character,
\* in their original order and character for character as in the caption.
C1_SplitReturnsSegments ==
    (pc = "done" /\ HasBreakMarker(text))
        => lines = SelectSeq(MarkerSegments(text), HasVisibleChar)

\* a caption with both kinds of marker: one segment is dropped as blank, and
\* the segment kept still has its leading space
C1_Witness ==
    /\ pc = "done"
    /\ text = <<"NL", "SP", "n", "BS", "n">>
    /\ lines = << <<"SP", "n">> >>

-----------------------------------------------------------------------------
(* C15: the explicit-break splitter is idempotent on its joined output *)

\* Array.prototype.join(marker)
RECURSIVE Join(_, _)
Join(ls, marker) ==
    IF ls = <<>> THEN <<>>
    ELSE IF Len(ls) = 1 THEN ls[1]
    ELSE ls[1] \o marker \o Join(Tail(ls), marker)

RealNewline == <<"NL">>
EscapedNewline == <<"BS", "n">>

\* C15: splitting the splitter's own output, joined by a real line break or by
\* the backslash-n token, returns that same output:
\* split(join(split(t))) = split(t) for every caption t.
C15_SplitIdempotent ==
    pc = "done"
        => /\ splitTextByNewlines(Join(lines, RealNewline)) = lines
           /\ splitTextByNewlines(Join(lines, EscapedNewline)) = lines

\* two lines came out of a caption with a doubled marker: the joined output
\* differs from the caption and splits into the same lines
C15_Witness ==
    /\ pc = "done"
    /\ text = <<"n", "BS", "n", "NL", "W">>
    /\ lines = << <<"n">>, <<"W">> >>
    /\ Join(lines, EscapedNewline) # text
    /\ Join(lines, RealNewline) # text
    /\ splitTextByNewlines(Join(lines, EscapedNewline)) = lines

-----------------------------------------------------------------------------
(* Configuration methods of TikTokTextOverlay.  In the class-level          *)
(* specifications the single caller configures the processor first and      *)
(* then calls the method under study.                                       *)

Unused == pc = "idle" /\ ~preview.called

\* this.config.fontSize = size
withFontSize(cfg, size) == [cfg EXCEPT !.fontSize = size]

\* this.config.lineHeight = lineHeight
withLineHeight(cfg, lineHeight) == [cfg EXCEPT !.lineHeight = lineHeight]

\* this.config.position = position
withPosition(cfg, position) == [cfg EXCEPT !.position = position]

\* setFontSize(size)
setFontSize(size) ==
    /\ Unused
    /\ config' = withFontSize(config, size)
    /\ configObject' = configObject
    /\ UNCHANGED <<text, lines, preview, layout, pc, slots, tempFiles, serverUp, last, options>>

\* setLineHeight(lineHeight)
setLineHeight(lineHeight) ==
    /\ Unused
    /\ config' = withLineHeight(config, lineHeight)
    /\ configObject' = configObject
    /\ UNCHANGED <<text, lines, preview, layout, pc, slots, tempFiles, serverUp, last, options>>

\* setPosition(position)
setPosition(position) ==
    /\ Unused
    /\ config' = withPosition(config, position)
    /\ configObject' = configObject
    /\ UNCHANGED <<text, lines, preview, layout, pc, slots, tempFiles, serverUp, last, options>>

\* this.config = { ... }: the object literal is a new object, which takes the
\* place of the one this.config referred to (two objects, named 0 and 1,
\* are enough to tell a replaced object from one that was kept)
NewObject(object) == 1 - object

\* { ...this.config, ...newConfig }
MergeConfig(cfg, newConfig) ==
    [f \in DOMAIN cfg |-> IF f \in DOMAIN newConfig THEN newConfig[f] ELSE cfg[f]]

\* updateConfig(newConfig)
updateConfig(newConfig) ==
    /\ Unused
    /\ config' = MergeConfig(config, newConfig)
    /\ configObject' = NewObject(configObject)
    /\ UNCHANGED <<text, lines, preview, layout, pc, slots, tempFiles, serverUp, last, options>>

-----------------------------------------------------------------------------
(* Specification of autoWrapLines alone *)

WrapAlphabet == {"n", "W", "SP"}
WrapFontSizes == {400, 1000}
WrapConfigs == {[width |-> 400], [width |-> 2000]}

WrapInit ==
    /\ text \in SeqsUpTo(WrapAlphabet, MaxWrapLen)
    /\ pc = "idle"
    /\ lines = NoLines
    /\ preview = NoPreview
    /\ layout = NoLayout
    /\ config = defaultConfig
    /\ configObject = 0
    /\ slots = <<>>
    /\ tempFiles = {}
    /\ serverUp = TRUE
    /\ last = NoRequest
    /\ options = NoOptions

\* lines = this.autoWrapLines(ctx, text)
WrapCall ==
    /\ pc = "idle"
    /\ lines' = autoWrapLines(config, text)
    /\ pc' = "done"
    /\ UNCHANGED <<config, configObject, text, preview, layout, slots, tempFiles, serverUp, last, options>>

WrapNext ==
    \/ \E size \in WrapFontSizes : setFontSize(size)
    \/ \E newConfig \in WrapConfigs : updateConfig(newConfig)
    \/ WrapCall

SpecWrap == WrapInit /\ [][WrapNext]_vars

-----------------------------------------------------------------------------
(* C2: auto-wrapped lines of two or more words respect the width bound *)

\* the bound as the claim states it, in hundredths of a pixel:
\* max(0, 2*min(870 - width/2, width/2) - 2*horizontalPadding)
C2_Bound(cfg) ==
    Max(0, 2 * Min(87000 - cfg.width * 50, cfg.width * 50)
           - 2 * cfg.horizontalPadding * 100)

\* a returned line holds two or more words iff it holds a separator
TwoOrMoreWords(line) == \E k \in 1..Len(line) : line[k] = "SP"

\* C2: for a caption without break marker, every line autoWrapLines returns
\* that consists of two or more words has measured width <= maxTextWidth.
C2_MultiWordLinesFit ==
    (pc = "done" /\ ~HasBreakMarker(text))
        => \A i \in 1..Len(lines) :
              TwoOrMoreWords(lines[i]) => measureText(config, lines[i]) <= C2_Bound(config)

\* a two-word line that fits is followed by a single word that overflows
C2_Witness ==
    /\ pc = "done"
    /\ config.fontSize = 400 /\ config.width = 1024
    /\ lines = << <<"n", "SP", "W">>, <<"W", "W">> >>
    /\ measureText(config, lines[1]) <= C2_Bound(config)
    /\ measureText(config, lines[2]) > C2_Bound(config)

-----------------------------------------------------------------------------
(* C17: a word wider than the bound stays whole and alone on its line *)

\* the words of a string: its maximal runs of characters other than the space
WordsOf(s) == SelectSeq(SplitOn(s, "SP"), LAMBDA w : w # <<>>)

\* the words of a list of lines, in order
RECURSIVE WordsOfLines(_)
WordsOfLines(ls) ==
    IF ls = <<>> THEN <<>> ELSE WordsOf(Head(ls)) \o WordsOfLines(Tail(ls))

TooWide(cfg, word) == measureText(cfg, word) > C2_Bound(cfg)

\* C17: in auto-wrap mode no word is split (the words of the lines are the
\* words of the caption, in order), and a word whose measured width alone
\* exceeds maxTextWidth is the only word of its line wherever it stands in the
\* caption; the bubble of that line is wider than the bubble bound.
C17_WideWordAlone ==
    (pc = "done" /\ ~HasBreakMarker(text))
        => /\ WordsOfLines(lines) = WordsOf(text)
           /\ \A i \in 1..Len(lines) :
                 (\E k \in 1..Len(WordsOf(lines[i])) : TooWide(config, WordsOf(lines[i])[k]))
                    => /\ Len(WordsOf(lines[i])) = 1
                       /\ lines[i] = WordsOf(lines[i])[1]
                       /\ bubbleFor(config, lines[i], i - 1, 0).width
                             > Max(C2_Bound(config), getMaxBubbleWidthForAutoMode(config))

\* a word wider than the bound between two words that fit
C17_Witness ==
    /\ pc = "done"
    /\ config.fontSize = 400 /\ config.width = 1024
    /\ text = <<"n", "SP", "W", "W", "SP", "n">>
    /\ lines = << <<"n">>, <<"W", "W">>, <<"n">> >>
    /\ TooWide(config, lines[2])
    /\ ~TooWide(config, <<"n", "SP", "n">>)

-----------------------------------------------------------------------------
(* C24: every line break of autoWrapLines is forced by the width bound *)

\* C24: in auto-wrap mode, for every two consecutive output lines, the earlier
\* line followed by a space and the first word of the later line measures more
\* than maxTextWidth: no word moves to the next line while it still fits.
C24_BreaksForced ==
    (pc = "done" /\ ~HasBreakMarker(text))
        => \A i \in 1..(Len(lines) - 1) :
              measureText(config, lines[i] \o <<"SP">> \o WordsOf(lines[i + 1])[1])
                  > C2_Bound(config)

\* two words fill the first line to 656 of 664 pixels, the third starts a new one
C24_Witness ==
    /\ pc = "done"
    /\ config.fontSize = 400 /\ config.width = 1024
    /\ text = <<"n", "SP", "W", "SP", "n">>
    /\ lines = << <<"n", "SP", "W">>, <<"n">> >>
    /\ measureText(config, lines[1]) = Px(656)
    /\ C2_Bound(config) = Px(664)

-----------------------------------------------------------------------------
(* C27: auto-wrap keeps the words of the caption and nothing else *)

\* C27: for a caption without a break marker the lines autoWrapLines returns,
\* joined by single spaces, are the caption with every run of white space
\* collapsed to one space and both ends trimmed: no word is dropped,
\* duplicated, reordered or split; and no returned line is empty or begins or
\* ends with a space.
C27_WrapKeepsCaption ==
    (pc = "done" /\ ~HasBreakMarker(text))
        => /\ Join(lines, <<"SP">>) = Join(WordsOf(text), <<"SP">>)
           /\ \A i \in 1..Len(lines) :
                 /\ lines[i] # <<>>
                 /\ ~IsSpace(lines[i][1])
                 /\ ~IsSpace(lines[i][Len(lines[i])])

\* a caption with spaces at both ends and a double space between its two
\* words, which do not fit on one line
C27_Witness ==
    /\ pc = "done"
    /\ text = <<"SP", "n", "SP", "SP", "W", "SP">>
    /\ lines = << <<"n">>, <<"W">> >>
    /\ Join(lines, <<"SP">>) = <<"n", "SP", "W">>

-----------------------------------------------------------------------------
(* Specification of the overlay processor (class TikTokTextOverlay) with    *)
(* one caller: configure, then render and / or preview one caption          *)

\* values the setters are called with: what parseInt / parseFloat of a request
\* field, or a JSON body of /api/configure, can hand to them
OverlayPositions == {"top", "center", "bottom", "middle"}
OverlayFontSizes == {5, 1000}
OverlayLineHeights == {0 - 10}
OverlayConfigs == {[height |-> 2400, bubblePadding |-> 4]}

\* the three-line caption the preview application starts with, each line
\* shortened to one letter: line, backslash-n, line, backslash-n, line
ExampleCaptions == {<<"n", "BS", "n", "W", "BS", "n", "n">>}

OverlayInit ==
    /\ text \in SeqsUpTo(Alphabet, MaxCaptionLen) \cup ExampleCaptions
    /\ pc = "idle"
    /\ lines = NoLines
    /\ preview = NoPreview
    /\ layout = NoLayout
    /\ config = defaultConfig
    /\ configObject = 0
    /\ slots = <<>>
    /\ tempFiles = {}
    /\ serverUp = TRUE
    /\ last = NoRequest
    /\ options = NoOptions

\* addTextOverlayBase64(imagePath, text) with an image that loads
addTextOverlayBase64 ==
    /\ pc = "idle"
    /\ layout' = renderLayout(config, text)
    /\ lines' = layout'.lines
    /\ pc' = "done"
    /\ UNCHANGED <<config, configObject, text, preview, slots, tempFiles, serverUp, last, options>>

\* the two render methods, and what loadImage rejects with for a file that is
\* missing or that is no image
RenderMethods == {"addTextOverlay", "addTextOverlayBase64"}
LoadErrors == {"ENOENT", "Unsupported image type"}

\* a catch that throws an error of its own in place of the one it caught
rethrowWrapped(error) == "Error processing image"

\* catch (error) { console.error(...); throw error; }
rethrow(error) == error

\* addTextOverlay / addTextOverlayBase64 with an image that does not load:
\* `await loadImage(imagePath)` is the first statement of the try block, its
\* rejection jumps to the catch, which logs and throws; canvas, layout,
\* toBuffer and writeFileSync are skipped
loadImageRejected(method, error) ==
    /\ pc = "idle"
    /\ pc' = "threw"
    /\ layout' = [drawn |-> FALSE, method |-> method, loads |-> 1,
                  loadError |-> error, thrown |-> rethrow(error),
                  returned |-> FALSE, fileWritten |-> FALSE]
    /\ UNCHANGED <<config, configObject, text, lines, preview, slots, tempFiles, serverUp, last, options>>

\* previewBalancedText(text, options)
PreviewCall ==
    /\ ~preview.called
    /\ preview' = [called |-> TRUE, lines |-> previewBalancedText(text)]
    /\ UNCHANGED <<config, configObject, text, lines, layout, pc, slots, tempFiles, serverUp, last, options>>

OverlayNext ==
    \/ \E position \in OverlayPositions : setPosition(position)
    \/ \E size \in OverlayFontSizes : setFontSize(size)
    \/ \E lineHeight \in OverlayLineHeights : setLineHeight(lineHeight)
    \/ \E newConfig \in OverlayConfigs : updateConfig(newConfig)
    \/ addTextOverlayBase64
    \/ \E method \in RenderMethods, error \in LoadErrors : loadImageRejected(method, error)
    \/ PreviewCall

SpecOverlay == OverlayInit /\ [][OverlayNext]_vars

-----------------------------------------------------------------------------
(* The balanced layout of src/text-overlay-test.js: balanceTextLines,       *)
(* generateArrangements, scoreArrangement, balanceTextLinesCanvas and the    *)
(* class TikTokTextOverlayTest that draws with them                          *)

\* the defaults of balanceTextLines; targetWordsPerLine is in tenths (35 is 3.5)
defaultOptions ==
    [given |-> TRUE, targetWordsPerLine |-> 35, maxWordsPerLine |-> 5, minWordsPerLine |-> 2]

\* a word split that cuts at every single space and keeps empty pieces
balanceWordsSingleSpace(t) == SplitOn(Trim(t), "SP")

\* text.trim().split(/\s+/).filter((word) => word.length > 0)
balanceWords(t) ==
    SelectSeq(SplitOn(CollapseSpaces(Trim(t)), "SP"), LAMBDA word : Len(word) > 0)

\* Array.prototype.slice(start, end): negative indexes count from the end
jsSlice(arr, start, end) ==
    LET norm(i) == IF i < 0 THEN Max(Len(arr) + i, 0) ELSE Min(i, Len(arr))
    IN  SubSeq(arr, norm(start) + 1, norm(end))

\* backtrack(startIndex, currentArrangement) and its for loop from wordsInLine
\* on.  The result tells whether the call stack overflowed and, if not, the
\* arrangements pushed, in the order they were pushed
RECURSIVE backtrack(_, _, _, _, _, _)
RECURSIVE tryLineLengths(_, _, _, _, _, _, _)
backtrack(words, minWords, maxWords, startIndex, currentArrangement, depth) ==
    IF depth > MaxStackDepth
    THEN [overflow |-> TRUE, arrangements |-> <<>>]
    ELSE IF startIndex >= Len(words)
    THEN [overflow |-> FALSE, arrangements |-> <<currentArrangement>>]
    ELSE tryLineLengths(words, minWords, maxWords, startIndex, currentArrangement,
                        depth, minWords)

tryLineLengths(words, minWords, maxWords, startIndex, currentArrangement, depth, wordsInLine) ==
    IF wordsInLine > maxWords
    THEN [overflow |-> FALSE, arrangements |-> <<>>]
    ELSE IF startIndex + wordsInLine <= Len(words)
    THEN LET line == Join(jsSlice(words, startIndex, startIndex + wordsInLine), <<"SP">>)
             inner == backtrack(words, minWords, maxWords, startIndex + wordsInLine,
                                Append(currentArrangement, line), depth + 1)
         IN  IF inner.overflow THEN inner
             ELSE LET rest == tryLineLengths(words, minWords, maxWords, startIndex,
                                             currentArrangement, depth, wordsInLine + 1)
                  IN  [overflow |-> rest.overflow,
                       arrangements |-> inner.arrangements \o rest.arrangements]
    ELSE tryLineLengths(words, minWords, maxWords, startIndex, currentArrangement,
                        depth, wordsInLine + 1)

\* an enumeration that never tries a line of maxWords words
generateArrangementsBelowMax(words, minWords, maxWords) ==
    backtrack(words, minWords, maxWords - 1, 0, <<>>, 1)

\* generateArrangements(words, minWords, maxWords)
generateArrangements(words, minWords, maxWords) ==
    backtrack(words, minWords, maxWords, 0, <<>>, 1)

RECURSIVE SeqSum(_)
SeqSum(s) == IF s = <<>> THEN 0 ELSE Head(s) + SeqSum(Tail(s))
SeqMax(s) == CHOOSE x \in {s[i] : i \in 1..Len(s)} : \A i \in 1..Len(s) : s[i] <= x
SeqMin(s) == CHOOSE x \in {s[i] : i \in 1..Len(s)} : \A i \in 1..Len(s) : s[i] >= x
Abs(x) == IF x < 0 THEN 0 - x ELSE x

\* scoreArrangement(lines, targetWords, maxCharVariance) as the fraction
\* scoreNum / scoreDen with scoreDen = (sum of the line lengths) * lines.length,
\* the product of the two divisors the function divides by
scoreDen(ls) ==
    IF Len(ls) = 0 THEN 1
    ELSE SeqSum([i \in 1..Len(ls) |-> Len(ls[i])]) * Len(ls)

scoreNum(ls, targetWords) ==
    IF Len(ls) = 0 THEN 0
    ELSE LET n == Len(ls)
             lineLengths == [i \in 1..n |-> Len(ls[i])]
             wordCounts == [i \in 1..n |-> Len(SplitOn(ls[i], "SP"))]
             sumLength == SeqSum(lineLengths)
             charVariance == SeqMax(lineLengths) - SeqMin(lineLengths)
             sumWords == SeqSum(wordCounts)
             wordVariance == SeqMax(wordCounts) - SeqMin(wordCounts)
             idealWordBonus ==
                 10 * Cardinality({i \in 1..n : wordCounts[i] >= 3 /\ wordCounts[i] <= 4})
         IN  \* Math.max(0, 100 - (charVariance / avgLength) * 200)
             Max(0, 100 * sumLength * n - 200 * charVariance * n * n)
             \* Math.max(0, 50 - Math.abs(avgWords - targetWords) * 20)
             + sumLength * Max(0, 50 * n - 2 * Abs(10 * sumWords - targetWords * n))
             \* the word-count bonus, the penalty for many lines, the 3-4 word bonus
             + sumLength * n * (Max(0, 30 - wordVariance * 10)
                                - Max(0, (n - 3) * 5)
                                + idealWordBonus)

\* a comparison that also replaces the best arrangement on an equal score
scoreGreaterOrEqual(current, best, targetWords) ==
    scoreNum(current, targetWords) * scoreDen(best)
        >= scoreNum(best, targetWords) * scoreDen(current)

\* currentScore > bestScore
scoreGreater(current, best, targetWords) ==
    scoreNum(current, targetWords) * scoreDen(best)
        > scoreNum(best, targetWords) * scoreDen(current)

\* arrangements.reduce((best, current) => ...) without initial value, from the
\* i-th arrangement on
RECURSIVE reduceBest(_, _, _, _)
reduceBest(arrangements, best, i, targetWords) ==
    IF i > Len(arrangements) THEN best
    ELSE IF scoreGreater(arrangements[i], best, targetWords)
    THEN reduceBest(arrangements, arrangements[i], i + 1, targetWords)
    ELSE reduceBest(arrangements, best, i + 1, targetWords)

\* balanceTextLines(text, options): what it returns or throws, whether it
\* called generateArrangements and the arrangements that call returned
balanceTextLines(t, opts) ==
    LET words == balanceWords(t)
    IN  IF Len(words) <= opts.maxWordsPerLine
        THEN [threw |-> "none", enumerated |-> FALSE, arrangements |-> <<>>,
              lines |-> <<Join(words, <<"SP">>)>>]
        ELSE LET generated == generateArrangements(words, opts.minWordsPerLine,
                                                   opts.maxWordsPerLine)
             IN  IF generated.overflow
                 THEN [threw |-> "RangeError", enumerated |-> TRUE,
                       arrangements |-> <<>>, lines |-> <<>>]
                 ELSE IF generated.arrangements = <<>>
                 THEN [threw |-> "TypeError", enumerated |-> TRUE,
                       arrangements |-> <<>>, lines |-> <<>>]
                 ELSE [threw |-> "none", enumerated |-> TRUE,
                       arrangements |-> generated.arrangements,
                       lines |-> reduceBest(generated.arrangements,
                                            generated.arrangements[1], 2,
                                            opts.targetWordsPerLine)]

\* this.config.maxWidth of TikTokTextOverlayTest, in pixels
maxWidth == 900

\* the loop of balanceTextLinesCanvas that splits a line wider than maxWidth,
\* over the remaining words of the line
RECURSIVE splitWideLine(_, _, _, _)
splitWideLine(cfg, words, acc, currentLine) ==
    IF words = <<>>
    THEN IF currentLine # <<>> THEN Append(acc, currentLine) ELSE acc
    ELSE LET word == Head(words)
             testLine == Candidate(currentLine, word)
         IN  IF measureText(cfg, testLine) <= Px(maxWidth)
             THEN splitWideLine(cfg, Tail(words), acc, testLine)
             ELSE splitWideLine(cfg, Tail(words),
                                IF currentLine # <<>> THEN Append(acc, currentLine) ELSE acc,
                                word)

\* for (const line of baseLines) { ... } of balanceTextLinesCanvas
RECURSIVE validLines(_, _)
validLines(cfg, baseLines) ==
    IF baseLines = <<>> THEN <<>>
    ELSE LET line == Head(baseLines)
         IN  (IF measureText(cfg, line) <= Px(maxWidth)
              THEN <<line>>
              ELSE splitWideLine(cfg, SplitOn(line, "SP"), <<>>, <<>>))
             \o validLines(cfg, Tail(baseLines))

\* balanceTextLinesCanvas(text, ctx, maxWidth, options) with a context
balanceTextLinesCanvas(cfg, t, opts) ==
    LET base == balanceTextLines(t, opts)
    IN  IF base.threw # "none" THEN base
        ELSE [base EXCEPT !.lines = validLines(cfg, base.lines)]

\* the body of textMetrics.lines.forEach((line, index) => ...) of
\* TikTokTextOverlayTest.addTextOverlay: the arguments handed to drawBubble and
\* to fillText.  index counts from 0
bubbleForTest(cfg, line, index, startY) ==
    LET lineWidth == measureText(cfg, line)
        extraPadding == 0
        bubbleWidth == lineWidth + (Px(cfg.horizontalPadding) + extraPadding) * 2
        bubbleHeight == lineHeightOf(cfg) + (Px(cfg.bubblePadding) + extraPadding) * 2
        gapBetweenBubbles == 0 - Px(10)
        bubbleX == (Px(cfg.width) - bubbleWidth) \div 2
        bubbleY == startY + index * (bubbleHeight + gapBetweenBubbles)
    IN  [x |-> bubbleX, y |-> bubbleY, width |-> bubbleWidth, height |-> bubbleHeight,
         radius |-> Px(cfg.bubbleRadius),
         lineWidth |-> lineWidth,
         textX |-> cfg.width * 50,
         textY |-> bubbleY + (Px(cfg.bubblePadding) + extraPadding)
                   + cfg.fontSize * 50]

\* TikTokTextOverlayTest.addTextOverlay after the image is loaded: the lines of
\* calculateTextMetrics (balanceTextLinesCanvas with the default options), the
\* start position and one bubble per line
renderLayoutTest(cfg, t) ==
    LET balanced == balanceTextLinesCanvas(cfg, t, defaultOptions)
        n == Len(balanced.lines)
        vpos == calculateVerticalPosition(cfg, cfg.height, n * lineHeightOf(cfg), n)
        startY == vpos - Px(50)
    IN  [drawn |-> balanced.threw = "none",
         threw |-> balanced.threw,
         lines |-> balanced.lines,
         isAutoWrap |-> FALSE,
         vpos |-> vpos,
         unclampedY |-> startY,
         startY |-> startY,
         bubbles |-> [i \in 1..n |-> bubbleForTest(cfg, balanced.lines[i], i - 1, startY)]]

-----------------------------------------------------------------------------
(* Specifications of the balanced layout: SpecBalance previews one caption  *)
(* with the caller's options (balanceTextLines alone); SpecTestOverlay has   *)
(* one caller configure a TikTokTextOverlayTest and render one caption       *)

\* captions of up to MaxWords words, each a short or a longer word, separated
\* by single spaces; and captions with irregular white space around the words
BalanceWordLists == SeqsUpTo({<<"n">>, <<"W", "W">>}, MaxWords)
BalanceCaptions ==
    {Join(ws, <<"SP">>) : ws \in BalanceWordLists}
        \cup {<<"SP">> \o Join(ws, <<"NL", "SP">>) \o <<"SP">> :
                ws \in {x \in BalanceWordLists : Len(x) <= 3}}

\* option sets a caller hands to previewBalancedText, merged with the defaults
BalanceOptions ==
    {defaultOptions,
     [defaultOptions EXCEPT !.minWordsPerLine = 4],
     [defaultOptions EXCEPT !.minWordsPerLine = 1, !.maxWordsPerLine = 2],
     [defaultOptions EXCEPT !.minWordsPerLine = 0, !.maxWordsPerLine = 2],
     [defaultOptions EXCEPT !.minWordsPerLine = 0 - 1, !.maxWordsPerLine = 3]}

BalanceInit ==
    /\ text \in BalanceCaptions
    /\ options \in BalanceOptions
    /\ pc = "idle"
    /\ lines = NoLines
    /\ preview = NoPreview
    /\ layout = NoLayout
    /\ config = defaultConfig
    /\ configObject = 0
    /\ slots = <<>>
    /\ tempFiles = {}
    /\ serverUp = TRUE
    /\ last = NoRequest

\* TikTokTextOverlayTest.previewBalancedText(text, options): the module's
\* previewBalancedText, which returns what balanceTextLines returns
previewBalancedTextTest ==
    /\ ~preview.called
    /\ LET result == balanceTextLines(text, options)
       IN  preview' = [called |-> TRUE, threw |-> result.threw,
                       enumerated |-> result.enumerated,
                       arrangements |-> result.arrangements, lines |-> result.lines]
    /\ UNCHANGED <<config, configObject, text, lines, layout, pc, slots, tempFiles, serverUp, last, options>>

BalanceFontSizes == {5, 1000}
BalanceConfigs == {[lineHeight |-> 10, bubblePadding |-> 4]}

\* TikTokTextOverlayTest.addTextOverlay(imagePath, text, outputPath) with an
\* image that loads
addTextOverlayTest ==
    /\ pc = "idle"
    /\ layout' = renderLayoutTest(config, text)
    /\ lines' = layout'.lines
    /\ pc' = "done"
    /\ UNCHANGED <<config, configObject, text, preview, slots, tempFiles, serverUp, last, options>>

BalanceNext == previewBalancedTextTest

SpecBalance == BalanceInit /\ [][BalanceNext]_vars

TestOverlayInit ==
    /\ text \in BalanceCaptions
    /\ options = defaultOptions
    /\ pc = "idle"
    /\ lines = NoLines
    /\ preview = NoPreview
    /\ layout = NoLayout
    /\ config = defaultConfig
    /\ configObject = 0
    /\ slots = <<>>
    /\ tempFiles = {}
    /\ serverUp = TRUE
    /\ last = NoRequest

TestOverlayNext ==
    \/ \E size \in BalanceFontSizes : setFontSize(size)
    \/ \E newConfig \in BalanceConfigs : updateConfig(newConfig)
    \/ addTextOverlayTest

SpecTestOverlay == TestOverlayInit /\ [][TestOverlayNext]_vars

-----------------------------------------------------------------------------
(* Claims about balanceTextLines (SpecBalance) *)

\* the words of the caption: its maximal runs of characters that are no white space
CaptionWords == WordsOf(NewlinesToSpaces(text))

\* C21: whenever the caption has at most maxWordsPerLine words,
\* balanceTextLines returns exactly one line, the words joined by single
\* spaces, and does not enumerate arrangements.
C21_ShortCaptionOneLine ==
    (preview.called /\ Len(CaptionWords) <= options.maxWordsPerLine)
        => /\ preview.threw = "none"
           /\ ~preview.enumerated
           /\ preview.lines = << Join(CaptionWords, <<"SP">>) >>

\* two words with line breaks and spaces around them, as many words as
\* maxWordsPerLine allows, with a minWordsPerLine of 0
C21_Witness ==
    /\ preview.called
    /\ text = <<"SP", "n", "NL", "SP", "W", "W", "SP">>
    /\ options.maxWordsPerLine = 2 /\ options.minWordsPerLine = 0
    /\ preview.lines = << <<"n", "SP", "W", "W">> >>
    /\ ~preview.enumerated

\* the sequences of line sizes, each within minWords..maxWords, that add up to n
Compositions(n, minWords, maxWords) ==
    {sizes \in SeqsUpTo(minWords..maxWords, n \div minWords) : SeqSum(sizes) = n}

\* the arrangement that cuts the words into consecutive lines of the given sizes
ArrangementOf(words, sizes) ==
    [k \in 1..Len(sizes) |->
        LET before == SeqSum(SubSeq(sizes, 1, k - 1))
        IN  Join(SubSeq(words, before + 1, before + sizes[k]), <<"SP">>)]

\* C22: for 1 <= minWords <= maxWords, generateArrangements returns exactly the
\* partitions of the word sequence into consecutive lines of minWords..maxWords
\* words: every word once and in order, none returned twice, none missing.
C22_AllPartitions ==
    (preview.called /\ preview.enumerated
        /\ 1 <= options.minWordsPerLine
        /\ options.minWordsPerLine <= options.maxWordsPerLine)
        => LET returned == {preview.arrangements[i] : i \in 1..Len(preview.arrangements)}
               expected == {ArrangementOf(CaptionWords, sizes) :
                              sizes \in Compositions(Len(CaptionWords),
                                                     options.minWordsPerLine,
                                                     options.maxWordsPerLine)}
           IN  /\ preview.threw # "RangeError"
               /\ returned = expected
               /\ Cardinality(returned) = Len(preview.arrangements)

\* the seven arrangements of seven words in lines of 2 to 5 words
C22_Witness ==
    /\ preview.called /\ preview.enumerated
    /\ options = defaultOptions
    /\ Len(CaptionWords) = 7
    /\ Len(preview.arrangements) = 7
    /\ preview.arrangements[1] = ArrangementOf(CaptionWords, <<2, 2, 3>>)
    /\ preview.arrangements[7] = ArrangementOf(CaptionWords, <<5, 2>>)

\* the scoreArrangement values of two arrangements compared as fractions
ScoreBelow(a, b) ==
    scoreNum(a, options.targetWordsPerLine) * scoreDen(b)
        < scoreNum(b, options.targetWordsPerLine) * scoreDen(a)
ScoreEqual(a, b) ==
    scoreNum(a, options.targetWordsPerLine) * scoreDen(b)
        = scoreNum(b, options.targetWordsPerLine) * scoreDen(a)

\* C23: given more than maxWordsPerLine words, balanceTextLines returns an
\* enumerated arrangement of maximal scoreArrangement value, and among the
\* arrangements of maximal value the one enumerated first.  Stated where the
\* enumeration returned at least one arrangement to choose from.
C23_FirstOfBestScore ==
    (preview.called /\ Len(CaptionWords) > options.maxWordsPerLine
        /\ preview.arrangements # <<>>)
        => /\ preview.threw = "none"
           /\ \E k \in 1..Len(preview.arrangements) :
                 /\ preview.lines = preview.arrangements[k]
                 /\ \A j \in 1..Len(preview.arrangements) :
                       ~ScoreBelow(preview.lines, preview.arrangements[j])
                 /\ \A j \in 1..(k - 1) :
                       ScoreBelow(preview.arrangements[j], preview.lines)

\* seven words of one letter with the default options: the lines of 3 + 4
\* words and of 4 + 3 words score the same, the maximum, and 3 + 4, which is
\* enumerated first, is returned
C23_Witness ==
    /\ preview.called
    /\ options = defaultOptions
    /\ CaptionWords = [i \in 1..7 |-> <<"n">>]
    /\ preview.lines = ArrangementOf(CaptionWords, <<3, 4>>)
    /\ ScoreEqual(preview.lines, ArrangementOf(CaptionWords, <<4, 3>>))
    /\ \E j \in 1..Len(preview.arrangements) : ScoreBelow(preview.arrangements[j], preview.lines)

\* C28: for every caption and every option set with
\* 1 <= minWordsPerLine <= maxWordsPerLine, balanceTextLines returns a
\* non-empty list of lines and does not throw, also when the caption has more
\* than maxWordsPerLine words that cannot be partitioned into lines of
\* minWordsPerLine..maxWordsPerLine words.
C28_AlwaysReturnsLines ==
    (/\ preview.called
     /\ 1 <= options.minWordsPerLine
     /\ options.minWordsPerLine <= options.maxWordsPerLine)
        => /\ preview.threw = "none"
           /\ preview.lines # <<>>

\* C29: the backtracking of generateArrangements terminates for every finite
\* word list and every option set the caller supplies, a minWordsPerLine of 0
\* or below included: the call returns instead of recursing until the call
\* stack is exhausted.
C29_BacktrackTerminates ==
    preview.called => preview.threw # "RangeError"

-----------------------------------------------------------------------------
(* Claims about the bubbles of TikTokTextOverlayTest (SpecTestOverlay) *)

\* C25: the text of every line is anchored at the centre of its bubble:
\* x is half the canvas width and y is bubbleY + bubbleHeight / 2, for every
\* font size, line height and bubble padding, in every overlay implementation.
C25_TextAtBubbleCentre ==
    layout.drawn
        => \A i \in 1..Len(layout.bubbles) :
              /\ 2 * layout.bubbles[i].textX = Px(config.width)
              /\ 2 * layout.bubbles[i].textY
                     = 2 * layout.bubbles[i].y + layout.bubbles[i].height

-----------------------------------------------------------------------------
(* The server (class TikTokTextOverlayAPI): one node process, one shared    *)
(* overlayProcessor.  A handler runs without interruption up to its first   *)
(* await; the only await of the overlay route that waits for I/O is         *)
(* `await loadImage(imagePath)` inside addTextOverlayBase64.                *)

Slots == 1..MaxInFlight

\* request fields as the client sends them; "" and 0 stand for a field that is
\* absent (or parses to a falsy value), which the handlers treat alike
RequestTexts == {<<>>, <<"SP">>, <<"n", "SP">>}
RequestPositions == {"", "top"}
RequestFontSizes == {0, 5}
RequestLineHeights == {0, 20}

\* a body of POST /api/preview-text whose text is not a string (a JSON number)
NonString == <<"number">>
PreviewTexts == RequestTexts \cup {NonString}

\* bodies of POST /api/configure: the README's example body
ConfigureBodies ==
    {[fontSize |-> 60, position |-> "bottom", lineHeight |-> 0,
      textColor |-> "#131313", bubbleColor |-> "#FFFFFF"]}

FreeSlot ==
    [state |-> "free", hasFile |-> FALSE, text |-> <<>>, position |-> "",
     fontSize |-> 0, lineHeight |-> 0]

Init ==
    /\ config = defaultConfig
    /\ configObject = 0
    /\ slots = [s \in Slots |-> FreeSlot]
    /\ tempFiles = {}
    /\ serverUp = TRUE
    /\ last = NoRequest
    /\ options = NoOptions
    /\ text = <<>>
    /\ lines = NoLines
    /\ preview = NoPreview
    /\ layout = NoLayout
    /\ pc = "idle"

classVars == <<text, lines, preview, layout, pc, options>>

\* a validation that only refuses the absent / empty text
TextMissingEmptyOnly(t) == t = <<>>

\* !req.body.text || req.body.text.trim().length === 0
TextMissing(t) == t = <<>> \/ Len(Trim(t)) = 0

\* the setters handleTextOverlay calls before it renders (196-202)
configureOverlay(cfg, position, fontSize, lineHeight) ==
    LET c1 == withPosition(cfg, position)
        c2 == IF fontSize # 0 THEN withFontSize(c1, fontSize) ELSE c1
    IN  IF lineHeight # 0 THEN withLineHeight(c2, lineHeight) ELSE c2

\* handleTextOverlay up to `await loadImage`: validation, temp file, setters
handleTextOverlay(s, hasFile, bodyText, bodyPosition, bodyFontSize, bodyLineHeight) ==
    /\ serverUp
    /\ slots[s].state = "free"
    /\ IF ~hasFile \/ TextMissing(bodyText)
       THEN /\ last' = [kind |-> "overlay", status |-> 400, answered |-> TRUE,
                        raised |-> FALSE]
            /\ UNCHANGED <<config, configObject, slots, tempFiles>>
       ELSE LET position == IF bodyPosition # "" THEN bodyPosition ELSE "bottom"
            IN  /\ tempFiles' = tempFiles \cup {s}
                /\ config' = configureOverlay(config, position, bodyFontSize, bodyLineHeight)
                /\ configObject' = configObject
                /\ slots' = [slots EXCEPT ![s] =
                                [state |-> "loading", hasFile |-> hasFile,
                                 text |-> Trim(bodyText),
                                 position |-> position, fontSize |-> bodyFontSize,
                                 lineHeight |-> bodyLineHeight]]
                /\ last' = NoRequest
    /\ UNCHANGED <<serverUp, classVars>>

\* loadImage resolved: addTextOverlayBase64 draws with this.config as it is
\* now, handleTextOverlay answers and its finally removes the temp file
OverlayRendered(s) ==
    /\ serverUp
    /\ slots[s].state = "loading"
    /\ last' = [kind |-> "overlay", status |-> 200, answered |-> TRUE, raised |-> FALSE,
                text |-> slots[s].text,
                position |-> slots[s].position,
                fontSize |-> slots[s].fontSize,
                lineHeight |-> slots[s].lineHeight,
                used |-> config,
                data |-> [position |-> slots[s].position,
                          fontSize |-> IF slots[s].fontSize # 0
                                       THEN slots[s].fontSize ELSE config.fontSize,
                          lineHeight |-> IF slots[s].lineHeight # 0
                                         THEN slots[s].lineHeight ELSE config.lineHeight]]
    /\ slots' = [slots EXCEPT ![s] = FreeSlot]
    /\ tempFiles' = tempFiles \ {s}
    /\ UNCHANGED <<config, configObject, serverUp, classVars>>

\* a failing request whose handler has no finally: the temp file is left behind
OverlayFailedNoCleanup(s, processExits) ==
    /\ serverUp
    /\ slots[s].state = "loading"
    /\ last' = [kind |-> "overlay", status |-> 0, answered |-> FALSE, raised |-> TRUE]
    /\ serverUp' = ~processExits
    /\ slots' = IF processExits THEN [x \in Slots |-> FreeSlot]
                                ELSE [slots EXCEPT ![s] = FreeSlot]
    /\ UNCHANGED <<config, configObject, tempFiles, classVars>>

\* loadImage rejected: the error is rethrown up to the route's catch (after the
\* finally removed the temp file), which calls this.handleError.  The class
\* defines no handleError, so the catch itself throws a TypeError and the
\* async route handler rejects with nobody awaiting it: no response is sent.
\* Whether the unhandled rejection ends the process is the runtime's choice
\* (node 15 and later end it unless told otherwise); when it does, the
\* requests still waiting are lost with it and their temp files stay.
OverlayFailed(s, processExits) ==
    /\ serverUp
    /\ slots[s].state = "loading"
    /\ last' = [kind |-> "overlay", status |-> 0, answered |-> FALSE, raised |-> TRUE]
    /\ tempFiles' = tempFiles \ {s}
    /\ IF processExits
       THEN /\ serverUp' = FALSE
            /\ slots' = [x \in Slots |-> FreeSlot]
       ELSE /\ serverUp' = serverUp
            /\ slots' = [slots EXCEPT ![s] = FreeSlot]
    /\ UNCHANGED <<config, configObject, classVars>>

\* handleConfiguration: the setters for the truthy fields (which assign to
\* fields of the object this.config refers to), then updateConfig with the
\* colours given (which makes this.config refer to a new object)
handleConfiguration(body) ==
    /\ serverUp
    /\ LET c1 == IF body.fontSize # 0 THEN withFontSize(config, body.fontSize) ELSE config
           c2 == IF body.position # "" THEN withPosition(c1, body.position) ELSE c1
           c3 == IF body.lineHeight # 0 THEN withLineHeight(c2, body.lineHeight) ELSE c2
           colours == {f \in {"textColor", "bubbleColor"} : body[f] # ""}
           configUpdates == [f \in colours |-> body[f]]
           c4 == IF colours # {} THEN MergeConfig(c3, configUpdates) ELSE c3
       IN  /\ config' = c4
           /\ configObject' = IF colours # {} THEN NewObject(configObject)
                                                ELSE configObject
           /\ last' = [kind |-> "configure", status |-> 200, answered |-> TRUE,
                       raised |-> FALSE, currentConfig |-> c4]
    /\ UNCHANGED <<slots, tempFiles, serverUp, classVars>>

\* handleTextPreview.  A text that is not a string makes text.trim() throw; the
\* route's catch then throws the TypeError of the undefined this.handleError
\* synchronously, which express catches and passes to the error middleware:
\* the caller gets the 500 of the general error handler.
handleTextPreview(bodyText) ==
    /\ serverUp
    /\ last' =
         IF bodyText = NonString
         THEN [kind |-> "preview", status |-> 500, answered |-> TRUE, raised |-> TRUE]
         ELSE IF TextMissing(bodyText)
         THEN [kind |-> "preview", status |-> 400, answered |-> TRUE, raised |-> FALSE]
         ELSE [kind |-> "preview", status |-> 200, answered |-> TRUE, raised |-> FALSE,
               originalText |-> bodyText,
               lines |-> previewBalancedText(bodyText)]
    /\ UNCHANGED <<config, configObject, slots, tempFiles, serverUp, classVars>>

Next ==
    \/ \E s \in Slots, hasFile \in BOOLEAN, bodyText \in RequestTexts,
          bodyPosition \in RequestPositions, bodyFontSize \in RequestFontSizes,
          bodyLineHeight \in RequestLineHeights :
            handleTextOverlay(s, hasFile, bodyText, bodyPosition, bodyFontSize, bodyLineHeight)
    \/ \E s \in Slots : OverlayRendered(s)
    \/ \E s \in Slots, processExits \in BOOLEAN : OverlayFailed(s, processExits)
    \/ \E body \in ConfigureBodies : handleConfiguration(body)
    \/ \E bodyText \in PreviewTexts : handleTextPreview(bodyText)

Spec == Init /\ [][Next]_vars

-----------------------------------------------------------------------------
(* Claims about the server (Spec) *)

\* C4: under any interleaving, an overlay request is rendered with the
\* position, fontSize and lineHeight it supplied itself, and its response
\* echoes the values its rendering used.
C4_RenderedWithOwnConfig ==
    (last.kind = "overlay" /\ last.status = 200)
        => /\ last.used.position = last.position
           /\ last.fontSize # 0 => last.used.fontSize = last.fontSize
           /\ last.lineHeight # 0 => last.used.lineHeight = last.lineHeight
           /\ last.data.position = last.used.position
           /\ last.data.fontSize = last.used.fontSize
           /\ last.data.lineHeight = last.used.lineHeight

\* C5: every error raised while a request is processed reaches that request's
\* caller as an error response, no request is left without a response, and the
\* process stays alive.
C5_ErrorsAnswered ==
    /\ serverUp
    /\ last.kind # "none" => last.answered
    /\ (last.kind # "none" /\ last.raised) => last.status >= 400

\* C11: a POST /api/text-overlay request without uploaded image, or whose text
\* is missing, empty or white space only, is answered with 400 and nothing is
\* computed: no render is started, the processor's configuration is not
\* modified and no temp file is written.  POST /api/preview-text with such a
\* text is answered with 400 and no line list.  In the terms of the model:
\* a request that is being rendered has a file and a visible character in its
\* text, a preview that was answered with lines has a visible character in its
\* text, and a step that answers 400 changes nothing but the response.
C11_InvalidInputRejected ==
    /\ [](\A s \in Slots :
            slots[s].state = "loading"
                => slots[s].hasFile /\ HasVisibleChar(slots[s].text))
    /\ []((last.kind = "preview" /\ last.status = 200)
            => HasVisibleChar(last.originalText))
    /\ [][(last'.kind \in {"overlay", "preview"} /\ last'.status = 400)
            => /\ config' = config /\ configObject' = configObject
               /\ tempFiles' = tempFiles
               /\ slots' = slots
               /\ layout' = layout /\ preview' = preview /\ lines' = lines
               /\ "lines" \notin DOMAIN last'
         ]_vars

\* a request was refused while another one is suspended: the configuration the
\* suspended request stored and its temp file are as that request left them
C11_Witness ==
    /\ last.kind = "overlay" /\ last.status = 400
    /\ \E s \in Slots : slots[s].state = "loading" /\ tempFiles = {s}
    /\ config = configureOverlay(defaultConfig, "top", 5, 20)

\* values the service itself gives a field: the constructor's default and the
\* values of /api/configure
ConfiguredFontSizes ==
    {defaultConfig.fontSize} \cup ({body.fontSize : body \in ConfigureBodies} \ {0})
ConfiguredLineHeights ==
    {defaultConfig.lineHeight} \cup ({body.lineHeight : body \in ConfigureBodies} \ {0})

\* C13: the layout of an overlay request depends on its own inputs only: a
\* request that omits fontSize or lineHeight is rendered with the value the
\* service is configured with, whatever earlier overlay requests supplied.
\* Stated for requests that finish while no other request is being processed.
C13_LayoutFromOwnInputs ==
    (last.kind = "overlay" /\ last.status = 200
        /\ \A s \in Slots : slots[s].state = "free")
        => /\ last.fontSize = 0 => last.used.fontSize \in ConfiguredFontSizes
           /\ last.lineHeight = 0 => last.used.lineHeight \in ConfiguredLineHeights

\* C14: a configuration update replaces the processor's config object as a
\* whole instead of mutating its fields in place: every step that changes a
\* field of this.config makes this.config refer to a new object.
C14_UpdateReplacesConfig ==
    [][config' # config => configObject' # configObject]_vars

-----------------------------------------------------------------------------
(* Claims about the layout (SpecOverlay) *)

BubbleCount == Len(layout.bubbles)

\* top of the first drawn bubble and bottom of the last one
StackTop == layout.bubbles[1].y
StackBottom == layout.bubbles[BubbleCount].y + layout.bubbles[BubbleCount].height

\* C3: the line list of the preview entry point equals the line list the render
\* path uses for the same caption and configuration.  Stated for captions that
\* trimming leaves unchanged, which the overlay route hands on as they are.
C3_PreviewEqualsRender ==
    (layout.drawn /\ preview.called /\ Trim(text) = text)
        => preview.lines = layout.lines

\* C12: an invalid style configuration (a position other than top, center or
\* bottom, a non-positive canvas dimension) is never stored on the processor,
\* and no layout is computed from one.
C12_InvalidConfigRejected ==
    /\ config.position \in {"top", "center", "bottom"}
    /\ config.width > 0
    /\ config.height > 0

\* C16: the render path uses the explicit-break splitter exactly when the
\* caption holds a break marker (a real line break or the backslash-n token)
\* and the auto-wrap splitter otherwise, and its auto-wrap flag, which gates
\* the bottom clamp, agrees with the splitter that produced the lines.
C16_PolicyFollowsMarker ==
    layout.drawn
        => IF MarkerStarts(text) # {}
           THEN layout.lines = splitTextByNewlines(text) /\ ~layout.isAutoWrap
           ELSE layout.lines = autoWrapLines(config, text) /\ layout.isAutoWrap

\* a caption whose only marker is the backslash-n token: the lines are the
\* explicit ones, which differ from what auto-wrap would give, and the flag is off
C16_Witness ==
    /\ layout.drawn
    /\ text = <<"n", "BS", "n", "W">>
    /\ layout.lines = << <<"n">>, <<"W">> >>
    /\ layout.lines # autoWrapLines(config, text)
    /\ ~layout.isAutoWrap

\* C26: the safe zones act on auto-wrapped captions only.  For a caption with
\* a break marker the lines are the explicit segments as they are, the stack
\* starts exactly at calculateVerticalPosition(...) - 50 without a bottom
\* clamp, and every bubble is as wide as its text plus the padding, also when
\* bubbles reach past x = 870 or below y = 1200.
C26_SafeZonesAutoWrapOnly ==
    (layout.drawn /\ HasBreakMarker(text))
        => LET n == Len(layout.lines)
               position == calculateVerticalPosition(config, config.height,
                                                     n * lineHeightOf(config), n)
           IN  /\ layout.lines = splitTextByNewlines(text)
               /\ layout.startY = position - Px(50)
               /\ BubbleCount = n
               /\ \A i \in 1..n :
                     /\ layout.bubbles[i].y
                            = position - Px(50) + (i - 1) * (bubbleHeightOf(config) - Px(10))
                     /\ layout.bubbles[i].width
                            = measureText(config, layout.lines[i])
                              + 2 * Px(config.horizontalPadding)

\* explicit lines in a large font at the bottom of the default canvas: the
\* first bubble reaches past x = 870 and the stack ends below y = 1200
C26_Witness ==
    /\ layout.drawn /\ HasBreakMarker(text)
    /\ config.width = 1024 /\ config.height = 1536
    /\ BubbleCount = 2
    /\ layout.bubbles[1].x + layout.bubbles[1].width > Px(TIKTOK_SAFE_ZONES.right.x)
    /\ StackBottom > Px(TIKTOK_SAFE_ZONES.bottom.y)
    /\ layout.startY = layout.unclampedY

\* C30: every caption that passes the text validation of the server (it is
\* not empty after trimming; handleTextOverlay hands the trimmed caption to
\* addTextOverlayBase64) is rendered with at least one bubble, captions made
\* only of break markers and white space included.
C30_AcceptedCaptionHasBubble ==
    (layout.drawn /\ ~TextMissing(text) /\ text = Trim(text))
        => BubbleCount >= 1

\* C6: consecutive bubbles are never vertically inverted.
C6_NoVerticalInversion ==
    layout.drawn
        => \A i \in 1..(BubbleCount - 1) : layout.bubbles[i + 1].y >= layout.bubbles[i].y

\* C7: the corner radius handed to drawBubble is at most half of the smaller
\* of the bubble's width and height.
C7_RadiusBounded ==
    layout.drawn
        => \A i \in 1..BubbleCount :
              2 * layout.bubbles[i].radius
                  <= Min(layout.bubbles[i].width, layout.bubbles[i].height)

\* C8: every bubble is as wide as its text plus twice the horizontal padding
\* when that fits, and the centred bubble never crosses a canvas edge.
C8_BubbleInsideCanvas ==
    layout.drawn
        => \A i \in 1..BubbleCount :
              LET b == layout.bubbles[i]
                  full == b.lineWidth + 2 * Px(config.horizontalPadding)
              IN  /\ b.x >= 0
                  /\ b.x + b.width <= Px(config.width)
                  /\ full <= Px(config.width) => b.width = full

\* C9: in auto-wrap mode with at least one line the drawn stack ends at or
\* above y = 1200; a block whose unclamped bottom edge lies below 1200 is moved
\* up by exactly the excess, any other block is left where it was.
C9_BottomClamp ==
    (layout.drawn /\ layout.isAutoWrap /\ BubbleCount >= 1)
        => LET stackHeight == StackBottom - StackTop
               unclampedBottom == layout.unclampedY + stackHeight
           IN  /\ StackTop = layout.startY
               /\ StackBottom <= Px(1200)
               /\ unclampedBottom > Px(1200)
                     => layout.startY = layout.unclampedY - (unclampedBottom - Px(1200))
               /\ unclampedBottom <= Px(1200) => layout.startY = layout.unclampedY

\* a stack taller than the space above 1200: it is clamped to the bottom and
\* its top leaves the canvas
C9_Witness ==
    /\ layout.drawn /\ layout.isAutoWrap /\ BubbleCount >= 2
    /\ layout.startY < layout.unclampedY
    /\ StackBottom = Px(1200)
    /\ StackTop < 0

\* C10: with position "center" the value calculateVerticalPosition returns puts
\* the midpoint of the drawn stack at canvasHeight / 2.
C10_CenterMidpoint ==
    (layout.drawn /\ config.position = "center" /\ BubbleCount >= 1)
        => 2 * layout.vpos + (StackBottom - StackTop) = Px(config.height)

\* a centred stack of two bubbles on a canvas of non-default height
C10_Witness ==
    /\ layout.drawn /\ config.position = "center" /\ BubbleCount = 2
    /\ config.height = 2400
    /\ layout.vpos + (StackBottom - StackTop) \div 2 = Px(1200)

\* C18: for n >= 1 lines the drawn stack, from the top of the first bubble to
\* the bottom of the last one, is n*bubbleHeight - (n-1)*10 pixels high, with
\* consecutive bubbles bubbleHeight - 10 apart; this is the totalBubbleHeight
\* calculateVerticalPosition places (seen in its value for position bottom)
\* and the bottom clamp pins to y = 1200.
C18_StackHeight ==
    (layout.drawn /\ BubbleCount >= 1)
        => LET n == BubbleCount
               bubbleHeight == bubbleHeightOf(config)
               stackHeight == StackBottom - StackTop
           IN  /\ stackHeight = n * bubbleHeight - (n - 1) * Px(10)
               /\ \A i \in 1..(n - 1) :
                     layout.bubbles[i + 1].y - layout.bubbles[i].y = bubbleHeight - Px(10)
               /\ config.position = "bottom"
                     => layout.vpos + stackHeight = config.height * 85
               /\ layout.startY # layout.unclampedY
                     => layout.startY + stackHeight = Px(TIKTOK_SAFE_ZONES.bottom.y)

\* the three explicit lines of the example caption under the default
\* configuration: bubbles of 118 px, a stack of 3*118 - 2*10 = 334 px
C18_Witness ==
    /\ layout.drawn /\ BubbleCount = 3
    /\ text \in ExampleCaptions
    /\ config = defaultConfig
    /\ ~layout.isAutoWrap
    /\ layout.bubbles[1].height = Px(118)
    /\ StackBottom - StackTop = Px(334)

=============================================================================
